---- MODULE Spec2Model ----
(***************************************************************************)
(* Foodgram backend: the favorite / shopping-cart / follow toggles, the    *)
(* recipe create/update validation and the recipe write handlers, as state *)
(* machines over the relational tables.                                    *)
(*                                                                         *)
(* Tables with a two-column UniqueConstraint are kept as row COUNTS per    *)
(* key, so that a duplicate row is a representable state and the           *)
(* constraint is something the insert has to enforce.                      *)
(***************************************************************************)
EXTENDS Integers, Sequences, FiniteSets, TLC

\* ---------------------------------------------------------------- bounds
NumUsers == 2
NumRecipes == 2
NumPublished == 1
NumWorkers == 2
NumIngredients == 2
NumTags == 2
NumNames == 2
MaxAmount == 1
MaxLen == 2
MaxRecipeId == 4200
MaxTokenLen == 2

\* ------------------------------------------------------------- constants
HTTP_201_CREATED == 201
HTTP_204_NO_CONTENT == 204
HTTP_400_BAD_REQUEST == 400
HTTP_404_NOT_FOUND == 404
HTTP_500_SERVER_ERROR == 500
\* An unauthenticated request is answered 401 or 403 depending on the
\* configured authenticator, which the views do not fix.
DeniedStatuses == {401, 403}

Anonymous == 0
Users == 1..NumUsers
Requesters == Users \cup {Anonymous}
\* Primary keys of the user table a request may name: one more than exist.
UserPks == 1..(NumUsers + 1)
RecipeIds == 1..NumRecipes
NoRecipe == [author |-> 0, name |-> 0]

VARIABLES
    Recipe,            \* recipe id -> [author, name], or NoRecipe
    RecipeIngredient,  \* recipe id -> sequence of [ingredient, amount] rows
    RecipeTag,         \* recipe id -> set of tag ids
    recipe_id_seq,     \* the last id the database gave a recipe
    Favorite,          \* <<user, recipe>> -> number of rows
    ShoppingCart,      \* <<user, recipe>> -> number of rows
    Follow,            \* <<user, author>> -> number of rows
    resp,              \* the last response, with the request it answers
    workers,           \* concurrent request workers (SpecRace)
    serializer         \* a RecipeCreateSerializer under validation

vars == <<Recipe, RecipeIngredient, RecipeTag, recipe_id_seq, Favorite,
          ShoppingCart, Follow, resp, workers, serializer>>

tables == <<Recipe, RecipeIngredient, RecipeTag, recipe_id_seq, Favorite,
            ShoppingCart, Follow>>

relations == <<Favorite, ShoppingCart, Follow>>

\* ------------------------------------------------------------ ORM layer
\* QuerySet.filter(...).exists()
Exists(table, key) == table[key] > 0

\* A UniqueConstraint over the two key columns of a join table.
UniqueConstraint_Off(table, key) == TRUE

UniqueConstraint(table, key) == table[key] = 0

\* Manager.create(): the row is inserted unless the constraint raises
\* IntegrityError.
DbCreate(table, key) ==
    IF UniqueConstraint(table, key)
    THEN [ok |-> TRUE, table |-> [table EXCEPT ![key] = @ + 1]]
    ELSE [ok |-> FALSE, table |-> table]

\* Manager.get(): exactly one row, else DoesNotExist / MultipleObjectsReturned.
DbGet(table, key) == table[key] = 1

\* instance.delete() of the row Manager.get() returned.
DbDelete_Nothing(table, key) == table

DbDelete_AllUsers(table, key) ==
    [k \in DOMAIN table |-> IF k[2] = key[2] THEN 0 ELSE table[k]]

DbDelete(table, key) ==
    [table EXCEPT ![key] = IF @ > 0 THEN @ - 1 ELSE 0]

\* get_object(): the recipe with this pk, or Http404.
RecipeExists(pk) == pk \in DOMAIN Recipe /\ Recipe[pk] # NoRecipe

\* get_object_or_404(User, id=author_id)
UserExists(id) == id \in Users

\* ----------------------------------------------------------- validators
\* FavoriteSerializer.validate_recipe: TRUE when the request passes.
FavoriteValidate_NoPostCheck(method, user, recipe) ==
    ~(method = "DELETE" /\ ~Exists(Favorite, <<user, recipe>>))

FavoriteValidate_NoDeleteCheck(method, user, recipe) ==
    ~(method = "POST" /\ Exists(Favorite, <<user, recipe>>))

FavoriteValidateRecipe(method, user, recipe) ==
    /\ ~(method = "POST" /\ Exists(Favorite, <<user, recipe>>))
    /\ ~(method = "DELETE" /\ ~Exists(Favorite, <<user, recipe>>))

\* ShoppingCartSerializer.validate_recipe
ShoppingCartValidateRecipe(method, user, recipe) ==
    /\ ~(method = "POST" /\ Exists(ShoppingCart, <<user, recipe>>))
    /\ ~(method = "DELETE" /\ ~Exists(ShoppingCart, <<user, recipe>>))

\* FollowSerializer.validate_author
FollowValidate_NoSelfCheck(user, author) ==
    ~Exists(Follow, <<user, author>>)

FollowValidate_NoExistsCheck(user, author) ==
    user # author

FollowValidateAuthor(user, author) ==
    /\ user # author
    /\ ~Exists(Follow, <<user, author>>)

\* ------------------------------------------- RecipeCreateSerializer
Ingredients == 1..NumIngredients
Tags == 1..NumTags
Names == 1..NumNames
\* Primary keys a request may name: one more than the table holds.
IngredientPks == 1..(NumIngredients + 1)
TagPks == 1..(NumTags + 1)
Amounts == (0 - 1)..MaxAmount
\* A request that does not carry the name field.
NoName == 0

SeqsUpTo(S, n) == UNION {[1..k -> S] : k \in 0..n}

\* The request data the recipe claims are about: the ingredients list of
\* {id, amount}, the tags list of ids, and the name (standing for the
\* required scalar fields). has_* tells a key the data carries from a
\* missing one, whose list is empty.
Lists(S, has) == IF has THEN SeqsUpTo(S, MaxLen) ELSE {<<>>}

Data(hi, i, ht, t, n) ==
    [has_ingredients |-> hi, ingredients |-> i, has_tags |-> ht,
     tags |-> t, name |-> n]

\* No error on a field.
Ok == "ok"

\* RecipeCreateSerializer.validate_ingredients
ValidateIngredients_NoDuplicateCheck(ingredients) ==
    IF Len(ingredients) = 0 THEN "need_ingredient"
    ELSE IF \E i \in DOMAIN ingredients : ingredients[i].amount <= 0
    THEN "amount_not_positive"
    ELSE Ok

ValidateIngredients_ZeroAllowed(ingredients) ==
    IF Len(ingredients) = 0 THEN "need_ingredient"
    ELSE IF Cardinality({ingredients[i].id : i \in DOMAIN ingredients})
              # Len(ingredients)
    THEN "duplicate_ingredient"
    ELSE IF \E i \in DOMAIN ingredients : ingredients[i].amount < 0
    THEN "amount_not_positive"
    ELSE Ok

ValidateIngredients_NoEmptyCheck(ingredients) ==
    IF Cardinality({ingredients[i].id : i \in DOMAIN ingredients})
          # Len(ingredients)
    THEN "duplicate_ingredient"
    ELSE IF \E i \in DOMAIN ingredients : ingredients[i].amount <= 0
    THEN "amount_not_positive"
    ELSE Ok

ValidateIngredients(ingredients) ==
    IF Len(ingredients) = 0 THEN "need_ingredient"
    ELSE IF Cardinality({ingredients[i].id : i \in DOMAIN ingredients})
              # Len(ingredients)
    THEN "duplicate_ingredient"
    ELSE IF \E i \in DOMAIN ingredients : ingredients[i].amount <= 0
    THEN "amount_not_positive"
    ELSE Ok

\* RecipeCreateSerializer.validate_tags
ValidateTags_NoEmptyCheck(tags) ==
    IF Cardinality({tags[i] : i \in DOMAIN tags}) # Len(tags)
    THEN "duplicate_tag"
    ELSE Ok

ValidateTags(tags) ==
    IF Len(tags) = 0 THEN "need_tag"
    ELSE IF Cardinality({tags[i] : i \in DOMAIN tags}) # Len(tags)
    THEN "duplicate_tag"
    ELSE Ok

\* The ingredients field: required unless the update is partial; each item
\* goes through IngredientsAddSerializer (the id must name an Ingredient, the
\* amount is any integer); then validate_ingredients runs on the list.
IngredientsField(data, partial) ==
    IF ~data.has_ingredients THEN (IF partial THEN Ok ELSE "required")
    ELSE IF \E i \in DOMAIN data.ingredients :
                data.ingredients[i].id \notin Ingredients
    THEN "does_not_exist"
    ELSE ValidateIngredients(data.ingredients)

\* The tags field: PrimaryKeyRelatedField(many=True), then validate_tags.
TagsField(data, partial) ==
    IF ~data.has_tags THEN (IF partial THEN Ok ELSE "required")
    ELSE IF \E i \in DOMAIN data.tags : data.tags[i] \notin Tags
    THEN "does_not_exist"
    ELSE ValidateTags(data.tags)

\* Recipe.name, a required model field.
NameField(data, partial) ==
    IF data.name = NoName /\ ~partial THEN "required" ELSE Ok

\* RecipeCreateSerializer.validate: both lists again, a missing one as [].
\* The first failure is the one raised.
ValidateAttrs(data) ==
    LET i == ValidateIngredients(data.ingredients)
    IN IF i # Ok THEN i ELSE ValidateTags(data.tags)

NoErrors ==
    [ingredients |-> Ok, tags |-> Ok, name |-> Ok, non_field_errors |-> Ok]

\* Serializer.run_validation: the fields first, validate() when none failed.
Errors(data, partial) ==
    LET fields == [ingredients |-> IngredientsField(data, partial),
                   tags |-> TagsField(data, partial),
                   name |-> NameField(data, partial),
                   non_field_errors |-> Ok]
    IN IF fields # NoErrors THEN fields
       ELSE [fields EXCEPT !.non_field_errors = ValidateAttrs(data)]

\* Serializer(data=..., partial=...), before is_valid().
NewSerializer(data, partial) ==
    [initial_data |-> data, partial |-> partial, validated |-> FALSE,
     errors |-> NoErrors]

\* get_serializer(data=request.data, partial=partial) and
\* serializer.is_valid() on it
is_valid(data, partial) ==
    /\ ~serializer.validated
    /\ serializer' = [NewSerializer(data, partial) EXCEPT
           !.validated = TRUE,
           !.errors = Errors(data, partial)]
    /\ UNCHANGED <<tables, resp, workers>>

\* ------------------------------------------------------------ responses
\* The table a toggle handler reads and writes.
Rows(op) ==
    IF op \in {"favorite", "delete_favorite"} THEN Favorite
    ELSE IF op \in {"shopping_cart", "RecipeViewSet_delete"} THEN ShoppingCart
    ELSE IF op \in {"subscribe", "UserViewSet_delete"} THEN Follow
    ELSE <<>>

\* A response, kept with the request it answers (handler, requester, target)
\* and with the number of rows the addressed pair had when the request came
\* in, so that a request answered like the one before it is still a step.
Response(op, user, target, status) ==
    [op |-> op, user |-> user, target |-> target, status |-> status,
     body |-> {},
     before |-> IF <<user, target>> \in DOMAIN Rows(op)
                THEN Rows(op)[<<user, target>>] ELSE 0]

HTTP_200_OK == 200

\* IsAuthenticated (and IsAuthenticatedOrReadOnly on an unsafe method)
\* refuses the anonymous requester before the handler runs.
Denied(op, user, target) ==
    /\ user = Anonymous
    /\ \E st \in DeniedStatuses : resp' = Response(op, user, target, st)
    /\ UNCHANGED <<tables, workers, serializer>>

Reject(op, user, target, status) ==
    /\ resp' = Response(op, user, target, status)
    /\ UNCHANGED <<tables, workers, serializer>>

\* -------------------------------------------- RecipeViewSet: writes
HTTP_403_FORBIDDEN == 403

HasObjectPermission_Anyone(user, pk) == TRUE

\* ReadOrAuthorOnly.has_object_permission on an unsafe method.
HasObjectPermission(user, pk) == Recipe[pk].author = user

\* UniqueConstraint(fields=['name', 'author']) on Recipe: another recipe
\* of the author already has the name.
NameTaken(name, author, pk) ==
    \E r \in RecipeIds \ {pk} : Recipe[r] = [author |-> author, name |-> name]

ValidatedRows_FirstOnly(data) ==
    [i \in DOMAIN data.ingredients \cap {1} |->
        [ingredient |-> data.ingredients[i].id,
         amount |-> data.ingredients[i].amount]]

\* The RecipeIngredient rows add_ingredients builds from validated data.
ValidatedRows(data) ==
    [i \in DOMAIN data.ingredients |->
        [ingredient |-> data.ingredients[i].id,
         amount |-> data.ingredients[i].amount]]

TagSet(data) == {data.tags[i] : i \in DOMAIN data.tags}

\* UniqueConstraint(fields=['recipe', 'ingredient']) over the rows of one
\* recipe.
RowsUnique(rows) ==
    \A i, j \in DOMAIN rows : rows[i].ingredient = rows[j].ingredient => i = j

\* The id the database gives the next recipe: ids are handed out in order
\* and never again, also after a delete.
NextPk == recipe_id_seq + 1

\* POST recipes/: RecipeCreateSerializer.is_valid(), then
\* perform_create -> serializer.save(author=request.user) -> create().
create(user, data) ==
    \/ Denied("create", user, 0)
    \/ /\ user \in Users
       /\ IF Errors(data, FALSE) # NoErrors
          THEN Reject("create", user, 0, HTTP_400_BAD_REQUEST)
          ELSE IF NameTaken(data.name, user, 0)
          THEN \* Recipe.objects.create raises IntegrityError
               Reject("create", user, 0, HTTP_500_SERVER_ERROR)
          ELSE /\ NextPk \in RecipeIds
               /\ recipe_id_seq' = NextPk
               /\ Recipe' = [Recipe EXCEPT ![NextPk] =
                                [author |-> user, name |-> data.name]]
               /\ RecipeTag' = [RecipeTag EXCEPT ![NextPk] = TagSet(data)]
               /\ IF RowsUnique(ValidatedRows(data))
                  THEN /\ RecipeIngredient' = [RecipeIngredient EXCEPT
                                                 ![NextPk] = ValidatedRows(data)]
                       /\ resp' = Response("create", user, NextPk,
                                           HTTP_201_CREATED)
                  ELSE /\ UNCHANGED RecipeIngredient
                       /\ resp' = Response("create", user, NextPk,
                                           HTTP_500_SERVER_ERROR)
               /\ UNCHANGED <<relations, workers, serializer>>

\* PUT (partial FALSE) and PATCH (partial TRUE) recipes/{pk}/:
\* get_object(), RecipeCreateSerializer.is_valid(), then
\* perform_update -> serializer.save() -> update(). Every statement of
\* update() is its own database write; nothing wraps them in a transaction.
UpdateRecipe(op, user, pk, data, partial) ==
    /\ user \in Users
    /\ IF ~RecipeExists(pk)
       THEN Reject(op, user, pk, HTTP_404_NOT_FOUND)
       ELSE IF ~HasObjectPermission(user, pk)
       THEN Reject(op, user, pk, HTTP_403_FORBIDDEN)
       ELSE IF Errors(data, partial) # NoErrors
       THEN Reject(op, user, pk, HTTP_400_BAD_REQUEST)
       ELSE LET name == IF data.name = NoName THEN Recipe[pk].name
                        ELSE data.name
            IN \* instance.recipe_ingredient.all().delete();
               \* add_ingredients(ingredients, instance)
               /\ RecipeIngredient' = [RecipeIngredient EXCEPT ![pk] =
                      IF RowsUnique(ValidatedRows(data))
                      THEN ValidatedRows(data) ELSE <<>>]
               \* instance.tags.set(tags), reached when bulk_create
               \* did not raise
               /\ RecipeTag' = [RecipeTag EXCEPT ![pk] =
                      IF RowsUnique(ValidatedRows(data))
                      THEN TagSet(data) ELSE @]
               \* super().update(): the remaining fields, instance.save()
               /\ IF /\ RowsUnique(ValidatedRows(data))
                     /\ ~NameTaken(name, Recipe[pk].author, pk)
                  THEN /\ Recipe' = [Recipe EXCEPT ![pk].name = name]
                       /\ resp' = Response(op, user, pk, HTTP_200_OK)
                  ELSE /\ UNCHANGED Recipe
                       /\ resp' = Response(op, user, pk,
                                           HTTP_500_SERVER_ERROR)
               /\ UNCHANGED <<recipe_id_seq, relations, workers, serializer>>

update(user, pk, data) ==
    \/ Denied("update", user, pk)
    \/ UpdateRecipe("update", user, pk, data, FALSE)

partial_update(user, pk, data) ==
    \/ Denied("partial_update", user, pk)
    \/ UpdateRecipe("partial_update", user, pk, data, TRUE)

Cascade_Keep(rel, pk) == rel

\* on_delete=CASCADE on the recipe key of Favorite and ShoppingCart: the
\* rows of the relation that are left when recipe pk is deleted.
Cascade(rel, pk) ==
    [k \in DOMAIN rel |-> IF k[2] = pk THEN 0 ELSE rel[k]]

\* The rows instance.delete() collects for recipe pk besides the recipe and
\* its tag rows: its ingredient rows and the favorite and cart rows on it.
Collected(pk) ==
    Len(RecipeIngredient[pk])
        + Cardinality({k \in DOMAIN Favorite : k[2] = pk /\ Favorite[k] > 0})
        + Cardinality({k \in DOMAIN ShoppingCart :
                          k[2] = pk /\ ShoppingCart[k] > 0})

\* DELETE recipes/{pk}/: get_object(), then instance.delete(), which takes
\* the RecipeIngredient, RecipeTag, Favorite and ShoppingCart rows of the
\* recipe with it. The response is kept with the number of rows collected.
destroy(user, pk) ==
    \/ Denied("destroy", user, pk)
    \/ /\ user \in Users
       /\ IF ~RecipeExists(pk)
          THEN Reject("destroy", user, pk, HTTP_404_NOT_FOUND)
          ELSE IF ~HasObjectPermission(user, pk)
          THEN Reject("destroy", user, pk, HTTP_403_FORBIDDEN)
          ELSE /\ Recipe' = [Recipe EXCEPT ![pk] = NoRecipe]
               /\ RecipeIngredient' = [RecipeIngredient EXCEPT ![pk] = <<>>]
               /\ RecipeTag' = [RecipeTag EXCEPT ![pk] = {}]
               /\ Favorite' = Cascade(Favorite, pk)
               /\ ShoppingCart' = Cascade(ShoppingCart, pk)
               /\ resp' = [Response("destroy", user, pk, HTTP_204_NO_CONTENT)
                              EXCEPT !.before = Collected(pk)]
               /\ UNCHANGED <<recipe_id_seq, Follow, workers, serializer>>

\* GET recipes/{pk}/: a safe method, so ReadOrAuthorOnly lets every
\* requester through; get_object() answers 404 for a missing recipe.
retrieve(user, pk) ==
    /\ resp' = IF RecipeExists(pk)
               THEN [Response("retrieve", user, pk, HTTP_200_OK)
                        EXCEPT !.body = Recipe[pk]]
               ELSE Response("retrieve", user, pk, HTTP_404_NOT_FOUND)
    /\ UNCHANGED <<tables, workers, serializer>>

\* GET recipes/ without filters: the stored recipes, for every requester.
list(user) ==
    /\ resp' = [Response("list", user, 0, HTTP_200_OK)
                  EXCEPT !.body = {r \in RecipeIds : RecipeExists(r)}]
    /\ UNCHANGED <<tables, workers, serializer>>

\* ------------------------------------------------- RecipeViewSet toggles
\* POST recipes/{pk}/favorite/
favorite(user, pk) ==
    \/ Denied("favorite", user, pk)
    \/ /\ user \in Users
       /\ IF ~RecipeExists(pk)
          THEN Reject("favorite", user, pk, HTTP_404_NOT_FOUND)
          ELSE IF ~FavoriteValidateRecipe("POST", user, pk)
          THEN Reject("favorite", user, pk, HTTP_400_BAD_REQUEST)
          ELSE \* get_or_create: the row found, or created
               LET made == IF Exists(Favorite, <<user, pk>>)
                           THEN [ok |-> TRUE, table |-> Favorite]
                           ELSE DbCreate(Favorite, <<user, pk>>)
               IN /\ Favorite' = made.table
                  /\ resp' = Response("favorite", user, pk,
                                      IF made.ok THEN HTTP_201_CREATED
                                      ELSE HTTP_500_SERVER_ERROR)
                  /\ UNCHANGED <<Recipe, RecipeIngredient, RecipeTag, recipe_id_seq,
                              ShoppingCart, Follow, workers, serializer>>

\* DELETE recipes/{pk}/favorite/
delete_favorite(user, pk) ==
    \/ Denied("delete_favorite", user, pk)
    \/ /\ user \in Users
       /\ IF ~RecipeExists(pk)
          THEN Reject("delete_favorite", user, pk, HTTP_404_NOT_FOUND)
          ELSE IF ~FavoriteValidateRecipe("DELETE", user, pk)
          THEN Reject("delete_favorite", user, pk, HTTP_400_BAD_REQUEST)
          ELSE IF ~DbGet(Favorite, <<user, pk>>)
          THEN Reject("delete_favorite", user, pk, HTTP_500_SERVER_ERROR)
          ELSE /\ Favorite' = DbDelete(Favorite, <<user, pk>>)
               /\ resp' = Response("delete_favorite", user, pk,
                                   HTTP_204_NO_CONTENT)
               /\ UNCHANGED <<Recipe, RecipeIngredient, RecipeTag, recipe_id_seq,
                              ShoppingCart, Follow, workers, serializer>>

\* POST recipes/{pk}/shopping_cart/
shopping_cart(user, pk) ==
    \/ Denied("shopping_cart", user, pk)
    \/ /\ user \in Users
       /\ IF ~RecipeExists(pk)
          THEN Reject("shopping_cart", user, pk, HTTP_404_NOT_FOUND)
          ELSE IF ~ShoppingCartValidateRecipe("POST", user, pk)
          THEN Reject("shopping_cart", user, pk, HTTP_400_BAD_REQUEST)
          ELSE LET made == DbCreate(ShoppingCart, <<user, pk>>)
               IN /\ ShoppingCart' = made.table
                  /\ resp' = Response("shopping_cart", user, pk,
                                      IF made.ok THEN HTTP_201_CREATED
                                      ELSE HTTP_500_SERVER_ERROR)
                  /\ UNCHANGED <<Recipe, RecipeIngredient, RecipeTag, recipe_id_seq,
                              Favorite, Follow, workers, serializer>>

\* DELETE on the shopping-cart action (RecipeViewSet.delete)
RecipeViewSet_delete(user, pk) ==
    \/ Denied("RecipeViewSet_delete", user, pk)
    \/ /\ user \in Users
       /\ IF ~RecipeExists(pk)
          THEN Reject("RecipeViewSet_delete", user, pk, HTTP_404_NOT_FOUND)
          ELSE IF ~ShoppingCartValidateRecipe("DELETE", user, pk)
          THEN Reject("RecipeViewSet_delete", user, pk, HTTP_400_BAD_REQUEST)
          ELSE IF ~DbGet(ShoppingCart, <<user, pk>>)
          THEN Reject("RecipeViewSet_delete", user, pk, HTTP_500_SERVER_ERROR)
          ELSE /\ ShoppingCart' = DbDelete(ShoppingCart, <<user, pk>>)
               /\ resp' = Response("RecipeViewSet_delete", user, pk,
                                   HTTP_204_NO_CONTENT)
               /\ UNCHANGED <<Recipe, RecipeIngredient, RecipeTag, recipe_id_seq,
                              Favorite, Follow, workers, serializer>>

\* ----------------------------------------------------------- short links
\* django.utils.baseconv: BASE64_ALPHABET, and base64 =
\* BaseConverter(BASE64_ALPHABET, sign='$'). A string is a sequence of
\* one-character strings.
BASE64_ALPHABET ==
    <<
      "0", "1", "2", "3", "4", "5", "6", "7", "8", "9", "A", "B", "C",
      "D", "E", "F", "G", "H", "I", "J", "K", "L", "M", "N", "O", "P",
      "Q", "R", "S", "T", "U", "V", "W", "X", "Y", "Z", "a", "b", "c",
      "d", "e", "f", "g", "h", "i", "j", "k", "l", "m", "n", "o", "p",
      "q", "r", "s", "t", "u", "v", "w", "x", "y", "z", "-", "_" >>

decimal_digits == << "0", "1", "2", "3", "4", "5", "6", "7", "8", "9" >>

base64_sign == "$"

Chars(digits) == {digits[k] : k \in DOMAIN digits}

\* digits.index(ch), counted from 0; ValueError when ch is not a digit.
Index(digits, ch) == (CHOOSE k \in DOMAIN digits : digits[k] = ch) - 1

\* str(i) of a Python int
RECURSIVE StrNat(_)
StrNat(i) ==
    IF i < 10 THEN <<decimal_digits[i + 1]>>
    ELSE StrNat(i \div 10) \o <<decimal_digits[(i % 10) + 1]>>

str(i) == IF i < 0 THEN <<"-">> \o StrNat(0 - i) ELSE StrNat(i)

\* BaseConverter.convert, first loop:
\* x = x * len(from_digits) + from_digits.index(digit)
RECURSIVE FromDigits(_, _)
FromDigits(number, from_digits) ==
    IF number = <<>> THEN 0
    ELSE FromDigits(SubSeq(number, 1, Len(number) - 1), from_digits)
             * Len(from_digits)
         + Index(from_digits, number[Len(number)])

\* int(s) of a Python decimal string
int(s) ==
    IF Head(s) = "-" THEN 0 - FromDigits(Tail(s), decimal_digits)
    ELSE FromDigits(s, decimal_digits)

\* BaseConverter.convert, second loop:
\* res = to_digits[x % len(to_digits)] + res; x = x // len(to_digits)
RECURSIVE ToDigits_Appended(_, _)
ToDigits_Appended(x, to_digits) ==
    IF x = 0 THEN <<>>
    ELSE <<to_digits[(x % Len(to_digits)) + 1]>>
            \o ToDigits_Appended(x \div Len(to_digits), to_digits)

RECURSIVE ToDigits(_, _)
ToDigits(x, to_digits) ==
    IF x = 0 THEN <<>>
    ELSE ToDigits(x \div Len(to_digits), to_digits)
            \o <<to_digits[(x % Len(to_digits)) + 1]>>

\* BaseConverter.convert(number, from_digits, to_digits, sign); error
\* stands for the ValueError of index() on a foreign character.
convert(number, from_digits, to_digits, sign) ==
    LET neg == Head(number) = sign
        body == IF neg THEN Tail(number) ELSE number
    IN IF \E k \in DOMAIN body : body[k] \notin Chars(from_digits)
       THEN [error |-> TRUE, neg |-> neg, res |-> <<>>]
       ELSE LET x == FromDigits(body, from_digits)
            IN [error |-> FALSE, neg |-> neg,
                res |-> IF x = 0 THEN <<to_digits[1]>>
                        ELSE ToDigits(x, to_digits)]

\* baseconv.base64.encode(i)
encode(i) ==
    LET c == convert(str(i), decimal_digits, BASE64_ALPHABET, "-")
    IN IF c.neg THEN <<base64_sign>> \o c.res ELSE c.res

\* baseconv.base64.decode(s)
decode(s) ==
    LET c == convert(s, BASE64_ALPHABET, decimal_digits, base64_sign)
    IN IF c.error THEN [error |-> TRUE, value |-> 0]
       ELSE [error |-> FALSE,
             value |-> int(IF c.neg THEN <<"-">> \o c.res ELSE c.res)]

HTTP_302_FOUND == 302

\* GET recipes/{pk}/get-link/: a safe method, open to everyone; the
\* short link is the address of the 'shortlink' route of the token.
get_link(user, pk) ==
    /\ IF ~RecipeExists(pk)
       THEN resp' = Response("get_link", user, pk, HTTP_404_NOT_FOUND)
       ELSE resp' = [Response("get_link", user, pk, HTTP_200_OK)
                        EXCEPT !.body = encode(pk)]
    /\ UNCHANGED <<tables, workers, serializer>>

\* not set(encoded_id).issubset(set(baseconv.BASE64_ALPHABET))
ForeignChars_Never(encoded_id) == FALSE

ForeignChars(encoded_id) ==
    ~(Chars(encoded_id) \subseteq Chars(BASE64_ALPHABET))

\* redirect(f'/recipes/{recipe_id}/')
Location(recipe_id) == <<"recipes", recipe_id>>

NoLocation == <<>>

\* ShortLinkView.get
ShortLinkView_get(encoded_id) ==
    /\ resp' =
          [Response("ShortLinkView_get", Anonymous, 0,
                    IF ForeignChars(encoded_id) THEN HTTP_400_BAD_REQUEST
                    ELSE IF decode(encoded_id).error
                    THEN HTTP_500_SERVER_ERROR
                    ELSE HTTP_302_FOUND)
              EXCEPT !.body =
                 [encoded_id |-> encoded_id,
                  location |->
                     IF ForeignChars(encoded_id) \/ decode(encoded_id).error
                     THEN NoLocation
                     ELSE Location(decode(encoded_id).value)]]
    /\ UNCHANGED <<tables, workers, serializer>>

\* ------------------------------------------------------- shopping list
\* The Ingredient table: the name is unique, the unit may be shared.
IngredientTable ==
    [i \in Ingredients |-> [name |-> i, measurement_unit |-> (i + 1) \div 2]]

\* The first line of the document ('Список покупок:').
Header == "Spisok pokupok:"

\* The names a lookup can follow from Recipe: its fields, and the
\* related_name of every relation that points at it.
RecipeLookups ==
    {"id", "name", "image", "text", "author", "ingredients", "tags",
     "cooking_time", "pub_date", "recipe_tag", "recipe_ingredient",
     "favorites", "shopping_carts"}

\* The lookup download_shopping_cart filters RecipeIngredient with:
\* recipe__shopping_cart__user
CartLookup == <<"recipe", "shopping_cart", "user">>

\* QuerySet.filter() raises FieldError on a name it cannot resolve.
FieldError(lookup) == lookup[2] \notin RecipeLookups

RECURSIVE Repeat(_, _)
Repeat(seq, n) == IF n = 0 THEN <<>> ELSE seq \o Repeat(seq, n - 1)

\* RecipeIngredient.objects.filter(recipe__shopping_cart__user=user): the
\* join gives every ingredient row once per cart row of the user on its
\* recipe.
RECURSIVE JoinUpTo(_, _, _)
JoinUpTo(cart, user, r) ==
    IF r = 0 THEN <<>>
    ELSE JoinUpTo(cart, user, r - 1)
            \o Repeat(RecipeIngredient[r], cart[<<user, r>>])

CartRows(user) == JoinUpTo(ShoppingCart, user, NumRecipes)

\* .values('ingredient__name', 'ingredient__measurement_unit')
Values(row) == IngredientTable[row.ingredient]

\* .annotate(amount=Sum('amount')): one item per group of values
RECURSIVE SumAmount(_, _)
SumAmount(rows, key) ==
    IF rows = <<>> THEN 0
    ELSE (IF Values(Head(rows)) = key THEN Head(rows).amount ELSE 0)
            + SumAmount(Tail(rows), key)

Annotate(rows) ==
    {[name |-> key.name, amount |-> SumAmount(rows, key),
      measurement_unit |-> key.measurement_unit] :
        key \in {Values(rows[i]) : i \in DOMAIN rows}}

\* The query has no ORDER BY: the groups come in any order.
Orderings(S) ==
    {f \in [1..Cardinality(S) -> S] :
        \A i, j \in 1..Cardinality(S) : f[i] = f[j] => i = j}

\* GET recipes/download_shopping_cart/: the query, then the header and one
\* line "{name} - {amount} {unit}" per item.
download_shopping_cart(user) ==
    \/ Denied("download_shopping_cart", user, 0)
    \/ /\ user \in Users
       /\ IF FieldError(CartLookup)
          THEN resp' = Response("download_shopping_cart", user, 0,
                                HTTP_500_SERVER_ERROR)
          ELSE \E lines \in Orderings(Annotate(CartRows(user))) :
                  resp' = [Response("download_shopping_cart", user, 0,
                                    HTTP_200_OK)
                              EXCEPT !.body = <<Header>> \o lines]
       /\ UNCHANGED <<tables, workers, serializer>>

\* --------------------------------------------------- UserViewSet toggles
\* POST users/{id}/subscribe/
subscribe(user, id) ==
    \/ Denied("subscribe", user, id)
    \/ /\ user \in Users
       /\ IF ~UserExists(id)
          THEN Reject("subscribe", user, id, HTTP_404_NOT_FOUND)
          ELSE IF ~FollowValidateAuthor(user, id)
          THEN Reject("subscribe", user, id, HTTP_400_BAD_REQUEST)
          ELSE \* serializer.save(): Follow.objects.create(user, author)
               LET made == DbCreate(Follow, <<user, id>>)
               IN /\ Follow' = made.table
                  /\ resp' = Response("subscribe", user, id,
                                      IF made.ok THEN HTTP_201_CREATED
                                      ELSE HTTP_500_SERVER_ERROR)
                  /\ UNCHANGED <<Recipe, RecipeIngredient, RecipeTag, recipe_id_seq,
                              Favorite, ShoppingCart, workers, serializer>>

\* DELETE on the unsubscribe action (UserViewSet.delete)
UserViewSet_delete(user, id) ==
    \/ Denied("UserViewSet_delete", user, id)
    \/ /\ user \in Users
       /\ IF ~UserExists(id)
          THEN Reject("UserViewSet_delete", user, id, HTTP_404_NOT_FOUND)
          ELSE IF ~Exists(Follow, <<user, id>>)
          THEN Reject("UserViewSet_delete", user, id, HTTP_400_BAD_REQUEST)
          ELSE IF ~DbGet(Follow, <<user, id>>)
          THEN Reject("UserViewSet_delete", user, id, HTTP_404_NOT_FOUND)
          ELSE /\ Follow' = DbDelete(Follow, <<user, id>>)
               /\ resp' = Response("UserViewSet_delete", user, id,
                                   HTTP_204_NO_CONTENT)
               /\ UNCHANGED <<Recipe, RecipeIngredient, RecipeTag, recipe_id_seq,
                              Favorite, ShoppingCart, workers, serializer>>

\* GET users/subscriptions/: the authors the requester follows.
subscriptions(user) ==
    \/ Denied("subscriptions", user, 0)
    \/ /\ user \in Users
       /\ resp' = [Response("subscriptions", user, 0, HTTP_200_OK)
                     EXCEPT !.body = {a \in Users : Exists(Follow, <<user, a>>)}]
       /\ UNCHANGED <<tables, workers, serializer>>

\* ------------------------------------------- concurrent add requests
\* Each worker of the pool runs one add handler at a time; the existence
\* check of the serializer and the insert are separate database round trips.
AddOps == {"favorite", "shopping_cart"}

Worker(pc, op, user, pk, status) ==
    [pc |-> pc, op |-> op, user |-> user, pk |-> pk, status |-> status]

Finished(w, status) ==
    Worker("done", workers[w].op, workers[w].user, workers[w].pk, status)

Moved(w, pc) ==
    Worker(pc, workers[w].op, workers[w].user, workers[w].pk, 0)

\* The request is routed: permission granted, get_object() found the recipe.
\* A worker serves add requests of the user and for the recipe it was given.
Begin(w, op) ==
    /\ workers[w].pc \in {"idle", "done"}
    /\ RecipeExists(workers[w].pk)
    /\ workers' = [workers EXCEPT ![w] =
           Worker("validate", op, workers[w].user, workers[w].pk, 0)]
    /\ UNCHANGED <<tables, resp, serializer>>

\* serializer.is_valid(raise_exception=True)
Validate(w) ==
    LET me == workers[w]
        ok == IF me.op = "favorite"
              THEN FavoriteValidateRecipe("POST", me.user, me.pk)
              ELSE ShoppingCartValidateRecipe("POST", me.user, me.pk)
    IN /\ me.pc = "validate"
       /\ workers' = [workers EXCEPT ![w] =
              IF ~ok THEN Finished(w, HTTP_400_BAD_REQUEST)
              ELSE IF me.op = "favorite" THEN Moved(w, "get")
              ELSE Moved(w, "create")]
       /\ UNCHANGED <<tables, resp, serializer>>

\* get_or_create(): the lookup that comes first.
GetOrCreateGet(w) ==
    LET me == workers[w]
        key == <<me.user, me.pk>>
    IN /\ me.pc = "get"
       /\ workers' = [workers EXCEPT ![w] =
              IF ~Exists(Favorite, key) THEN Moved(w, "create")
              ELSE IF DbGet(Favorite, key) THEN Finished(w, HTTP_201_CREATED)
              ELSE Finished(w, HTTP_500_SERVER_ERROR)]
       /\ UNCHANGED <<tables, resp, serializer>>

\* The INSERT of get_or_create() on Favorite ...
CreateFavorite(w) ==
    LET me == workers[w]
        made == DbCreate(Favorite, <<me.user, me.pk>>)
    IN /\ me.pc = "create"
       /\ me.op = "favorite"
       /\ Favorite' = made.table
       /\ workers' = [workers EXCEPT ![w] =
              IF made.ok THEN Finished(w, HTTP_201_CREATED)
              ELSE Moved(w, "reget")]
       /\ UNCHANGED <<Recipe, RecipeIngredient, RecipeTag, recipe_id_seq,
                              ShoppingCart,
                      Follow, resp, serializer>>

\* ... and of ShoppingCart.objects.create(), whose IntegrityError is not
\* caught.
CreateShoppingCart(w) ==
    LET me == workers[w]
        made == DbCreate(ShoppingCart, <<me.user, me.pk>>)
    IN /\ me.pc = "create"
       /\ me.op = "shopping_cart"
       /\ ShoppingCart' = made.table
       /\ workers' = [workers EXCEPT ![w] =
              IF made.ok THEN Finished(w, HTTP_201_CREATED)
              ELSE Finished(w, HTTP_500_SERVER_ERROR)]
       /\ UNCHANGED <<Recipe, RecipeIngredient, RecipeTag, recipe_id_seq,
                              Favorite,
                      Follow, resp, serializer>>

\* get_or_create(): the second lookup, after the IntegrityError.
GetOrCreateAgain(w) ==
    LET me == workers[w]
    IN /\ me.pc = "reget"
       /\ workers' = [workers EXCEPT ![w] =
              IF DbGet(Favorite, <<me.user, me.pk>>)
              THEN Finished(w, HTTP_201_CREATED)
              ELSE Finished(w, HTTP_500_SERVER_ERROR)]
       /\ UNCHANGED <<tables, resp, serializer>>

\* ------------------------------------------------------- initial states
NoResponse ==
    [op |-> "none", user |-> Anonymous, target |-> 0, status |-> 0,
     body |-> {}, before |-> 0]

NoWorker == Worker("idle", "none", 0, 0, 0)

NoSerializer ==
    NewSerializer([has_ingredients |-> FALSE, ingredients |-> <<>>,
                   has_tags |-> FALSE, tags |-> <<>>, name |-> NoName], FALSE)

EmptyRelations ==
    /\ Favorite = [k \in Users \X RecipeIds |-> 0]
    /\ ShoppingCart = [k \in Users \X RecipeIds |-> 0]
    /\ Follow = [k \in Users \X Users |-> 0]

\* The toggles run against a catalogue in which recipes 1..NumPublished have
\* been published by user 1; the other ids answer 404.
Published ==
    /\ Recipe = [r \in RecipeIds |->
                    IF r <= NumPublished THEN [author |-> 1, name |-> r]
                    ELSE NoRecipe]
    /\ RecipeIngredient = [r \in RecipeIds |->
                    IF r <= NumPublished
                    THEN <<[ingredient |-> 1, amount |-> 1]>> ELSE <<>>]
    /\ RecipeTag = [r \in RecipeIds |->
                    IF r <= NumPublished THEN {1} ELSE {}]
    /\ recipe_id_seq = NumPublished

InitToggle ==
    /\ Published
    /\ EmptyRelations
    /\ resp = NoResponse
    /\ workers = [w \in 1..NumWorkers |-> NoWorker]
    /\ serializer = NoSerializer

\* No serializer has been built yet.
InitValidate ==
    /\ Published
    /\ EmptyRelations
    /\ resp = NoResponse
    /\ workers = [w \in 1..NumWorkers |-> NoWorker]
    /\ serializer = NoSerializer

\* Any request data, for a create or PUT (partial FALSE) or a PATCH
\* (partial TRUE).
NextValidate ==
    /\ ~serializer.validated
    /\ \E hi \in BOOLEAN, ht \in BOOLEAN, partial \in BOOLEAN :
         \E i \in Lists([id : IngredientPks, amount : Amounts], hi),
            t \in Lists(TagPks, ht),
            n \in Names \cup {NoName} :
             is_valid(Data(hi, i, ht, t, n), partial)

\* An empty catalogue.
InitRecipe ==
    /\ Recipe = [r \in RecipeIds |-> NoRecipe]
    /\ RecipeIngredient = [r \in RecipeIds |-> <<>>]
    /\ RecipeTag = [r \in RecipeIds |-> {}]
    /\ recipe_id_seq = 0
    /\ EmptyRelations
    /\ resp = NoResponse
    /\ workers = [w \in 1..NumWorkers |-> NoWorker]
    /\ serializer = NoSerializer

\* A request refused before its body is read is sent with the empty body.
NoBody == NoSerializer.initial_data

BodyRead(user, pk) ==
    /\ user \in Users
    /\ pk \in RecipeIds => RecipeExists(pk) /\ HasObjectPermission(user, pk)

\* The write requests the recipe handlers are driven with: lists naming
\* stored ingredients and the last stored tag, amounts from 0 up.
NextRecipe ==
    \E user \in Requesters, hi \in BOOLEAN, ht \in BOOLEAN :
        \E i \in Lists([id : Ingredients, amount : 0..MaxAmount], hi),
           t \in Lists({NumTags}, ht),
           n \in Names \cup {NoName} :
            LET data == Data(hi, i, ht, t, n)
            IN \/ (BodyRead(user, 0) \/ data = NoBody) /\ create(user, data)
               \/ \E pk \in RecipeIds :
                     (BodyRead(user, pk) \/ data = NoBody)
                         /\ update(user, pk, data)
               \/ \E pk \in RecipeIds :
                     (BodyRead(user, pk) \/ data = NoBody)
                         /\ partial_update(user, pk, data)

\* Every recipe stored: recipe 1 by user 1 with one ingredient row and one
\* tag, the others by the last user with a row of every ingredient and
\* every tag.
InitUpdate ==
    /\ Recipe = [r \in RecipeIds |->
                    [author |-> IF r = 1 THEN 1 ELSE NumUsers, name |-> 1]]
    /\ RecipeIngredient = [r \in RecipeIds |->
                    IF r = 1 THEN <<[ingredient |-> 1, amount |-> 1]>>
                    ELSE [k \in Ingredients |->
                             [ingredient |-> k, amount |-> MaxAmount]]]
    /\ RecipeTag = [r \in RecipeIds |-> IF r = 1 THEN {1} ELSE Tags]
    /\ recipe_id_seq = NumRecipes
    /\ EmptyRelations
    /\ resp = NoResponse
    /\ workers = [w \in 1..NumWorkers |-> NoWorker]
    /\ serializer = NoSerializer

\* The update requests of user 1 and of an anonymous requester on every
\* recipe: on user 1's own recipe with any body of stored ingredients with
\* positive amounts, stored tags and a name or none; the requests refused
\* before the body is read, with none.
NextUpdate ==
    \E user \in {Anonymous, 1}, pk \in RecipeIds :
        IF BodyRead(user, pk)
        THEN \E hi \in BOOLEAN, ht \in BOOLEAN :
               \E i \in Lists([id : Ingredients, amount : 1..MaxAmount], hi),
                  t \in Lists(Tags, ht),
                  n \in Names \cup {NoName} :
                   \/ update(user, pk, Data(hi, i, ht, t, n))
                   \/ partial_update(user, pk, Data(hi, i, ht, t, n))
        ELSE \/ update(user, pk, NoBody)
             \/ partial_update(user, pk, NoBody)

\* Create requests with a body of one ingredient and one tag, deletes, the
\* favorite and cart toggles, and the shopping-list download.
NextLifecycle ==
    \E user \in Requesters :
        \/ \E n \in Names :
              create(user, Data(TRUE, <<[id |-> NumIngredients,
                                        amount |-> MaxAmount]>>,
                                TRUE, <<NumTags>>, n))
        \/ \E pk \in RecipeIds : destroy(user, pk)
        \/ \E pk \in RecipeIds : favorite(user, pk)
        \/ \E pk \in RecipeIds : delete_favorite(user, pk)
        \/ \E pk \in RecipeIds : shopping_cart(user, pk)
        \/ \E pk \in RecipeIds : RecipeViewSet_delete(user, pk)
        \/ download_shopping_cart(user)

\* The ingredient rows a stored recipe can hold.
RowLists ==
    {rows \in SeqsUpTo([ingredient : Ingredients, amount : 1..MaxAmount],
                       MaxLen) : rows # <<>> /\ RowsUnique(rows)}

\* Every recipe published by user 1, with any ingredient rows; empty carts.
InitCart ==
    /\ Recipe = [r \in RecipeIds |-> [author |-> 1, name |-> r]]
    /\ RecipeIngredient \in [RecipeIds -> RowLists]
    /\ RecipeTag = [r \in RecipeIds |-> {1}]
    /\ recipe_id_seq = NumRecipes
    /\ EmptyRelations
    /\ resp = NoResponse
    /\ workers = [w \in 1..NumWorkers |-> NoWorker]
    /\ serializer = NoSerializer

NextCart ==
    \E user \in Requesters :
        \/ \E pk \in RecipeIds : shopping_cart(user, pk)
        \/ \E pk \in RecipeIds : RecipeViewSet_delete(user, pk)
        \/ download_shopping_cart(user)

\* A catalogue whose one recipe has any id up to MaxRecipeId, 0 included
\* (the id an explicit insert can give).
InitLink ==
    /\ \E n \in 0..MaxRecipeId :
          /\ Recipe = [r \in {n} |-> [author |-> 1, name |-> 1]]
          /\ RecipeIngredient =
                 [r \in {n} |-> <<[ingredient |-> 1, amount |-> 1]>>]
          /\ RecipeTag = [r \in {n} |-> {1}]
          /\ recipe_id_seq = n
    /\ EmptyRelations
    /\ resp = NoResponse
    /\ workers = [w \in 1..NumWorkers |-> NoWorker]
    /\ serializer = NoSerializer

\* A link is asked for, for the recipe or for the id after it, and the
\* link returned is followed.
NextLink ==
    \/ \E user \in Requesters, pk \in DOMAIN Recipe \cup {recipe_id_seq + 1} :
          get_link(user, pk)
    \/ /\ resp.op = "get_link"
       /\ resp.status = HTTP_200_OK
       /\ ShortLinkView_get(resp.body)

\* Characters a token may be typed with: the alphabet and some outside it.
TokenChars == Chars(BASE64_ALPHABET) \cup {"$", "+", "."}

\* One request to the short-link endpoint with any token; the route
\* converter matches a token of at least one character.
NextToken ==
    /\ resp = NoResponse
    /\ \E len \in 1..MaxTokenLen :
          \E encoded_id \in [1..len -> TokenChars] :
              ShortLinkView_get(encoded_id)

\* The concurrent requests all come from one user and name one recipe:
\* rows of different pairs do not meet in any lookup or constraint.
InitRace ==
    /\ Published
    /\ EmptyRelations
    /\ resp = NoResponse
    /\ \E user \in Users, pk \in RecipeIds :
           /\ RecipeExists(pk)
           /\ workers = [w \in 1..NumWorkers |->
                            Worker("idle", "none", user, pk, 0)]
    /\ serializer = NoSerializer

NextMembership ==
    \E user \in Requesters, pk \in RecipeIds :
        \/ favorite(user, pk)
        \/ delete_favorite(user, pk)
        \/ shopping_cart(user, pk)
        \/ RecipeViewSet_delete(user, pk)

NextFollow ==
    \E user \in Requesters :
        \/ \E id \in UserPks : subscribe(user, id)
        \/ \E id \in UserPks : UserViewSet_delete(user, id)
        \/ subscriptions(user)

NextRace ==
    \E w \in 1..NumWorkers :
        \/ \E op \in AddOps : Begin(w, op)
        \/ Validate(w)
        \/ GetOrCreateGet(w)
        \/ CreateFavorite(w)
        \/ CreateShoppingCart(w)
        \/ GetOrCreateAgain(w)

\* Every recipe request of every requester, the writes with a body of one
\* ingredient and one tag or with no body at all.
NextAccess ==
    \E user \in Requesters :
        \/ \E hi \in BOOLEAN :
             \E i \in [1..(IF hi THEN 1 ELSE 0) ->
                          [id : Ingredients, amount : {MaxAmount}]],
                n \in Names \cup {NoName} :
                 LET data == Data(hi, i, hi, [k \in DOMAIN i |-> NumTags], n)
                 IN \/ create(user, data)
                    \/ \E pk \in RecipeIds : update(user, pk, data)
                    \/ \E pk \in RecipeIds : partial_update(user, pk, data)
        \/ \E pk \in RecipeIds : destroy(user, pk)
        \/ \E pk \in RecipeIds : retrieve(user, pk)
        \/ list(user)

NextToggle == NextMembership \/ NextFollow

\* Favorite and shopping-cart requests, one after another.
SpecMembership == InitToggle /\ [][NextMembership]_vars

\* Subscribe and unsubscribe requests, one after another.
SpecFollow == InitToggle /\ [][NextFollow]_vars

\* All six toggle handlers, one request after another.
SpecToggle == InitToggle /\ [][NextToggle]_vars

\* Add requests served concurrently by the worker pool.
SpecRace == InitRace /\ [][NextRace]_vars

\* RecipeCreateSerializer.is_valid() on the request data of a create, PUT
\* or PATCH.
SpecValidate == InitValidate /\ [][NextValidate]_vars

\* Cart add, cart remove and shopping-list download, one after another.
SpecCart == InitCart /\ [][NextCart]_vars

\* get-link requests and the redirect behind the link each returns.
SpecShortLink == InitLink /\ [][NextLink]_vars

\* The short-link endpoint on typed tokens.
SpecToken == InitToggle /\ [][NextToken]_vars

\* Recipes created and deleted while users favorite them, cart them and
\* download their shopping lists.
SpecLifecycle == InitRecipe /\ [][NextLifecycle]_vars

\* PUT and PATCH requests on a catalogue of stored recipes.
SpecUpdate == InitUpdate /\ [][NextUpdate]_vars

\* Recipe reads and writes by the author, by another user and by an
\* anonymous requester.
SpecAccess == InitToggle /\ [][NextAccess]_vars

\* Recipe create / PUT / PATCH requests, one after another.
SpecRecipe == InitRecipe /\ [][NextRecipe]_vars

\* ------------------------------------------------------------- claims
RemoveOps == {"delete_favorite", "RecipeViewSet_delete", "UserViewSet_delete"}

\* The table a toggle handler works on, after the step.
RowsAfter(op) ==
    IF op \in {"favorite", "delete_favorite"} THEN Favorite'
    ELSE IF op \in {"shopping_cart", "RecipeViewSet_delete"} THEN ShoppingCart'
    ELSE Follow'

RemoveOf(op) ==
    IF op = "favorite" THEN "delete_favorite" ELSE "RecipeViewSet_delete"

SameRequest(a, b) == a.user = b.user /\ a.target = b.target

\* C1: for favorite and for shopping cart, an add request by user u for
\* recipe r made while the pair is absent is answered 201 and leaves one row;
\* the add request for the same pair that follows it is answered 400 and the
\* table still holds exactly one (u, r) row.
C1_AddTwice ==
    [][(resp'.op \in AddOps /\ resp'.user \in Users
                             /\ RecipeExists(resp'.target)) =>
         LET key == <<resp'.user, resp'.target>>
         IN /\ Rows(resp'.op)[key] = 0 =>
                 /\ resp'.status = HTTP_201_CREATED
                 /\ RowsAfter(resp'.op)[key] = 1
            /\ (resp.op = resp'.op /\ SameRequest(resp, resp')
                                  /\ resp.status = HTTP_201_CREATED) =>
                 /\ resp'.status = HTTP_400_BAD_REQUEST
                 /\ RowsAfter(resp'.op)[key] = 1]_vars

\* A second add has just been refused and the pair is stored once.
C1_Witness ==
    /\ resp.op \in AddOps
    /\ resp.user \in Users
    /\ resp.status = HTTP_400_BAD_REQUEST
    /\ Rows(resp.op)[<<resp.user, resp.target>>] = 1

\* C2: a remove request on favorite, shopping cart or follow whose
\* (user, target) pair has no row is answered with a 4xx status and changes
\* none of the three relations.
PairExists(op, user, target) ==
    /\ <<user, target>> \in DOMAIN Rows(op)
    /\ Exists(Rows(op), <<user, target>>)

C2_RemoveAbsent ==
    [][(resp'.op \in RemoveOps
            /\ ~PairExists(resp'.op, resp'.user, resp'.target)) =>
         /\ resp'.status \in 400..499
         /\ UNCHANGED relations]_vars

\* Each of the three remove handlers can refuse an authenticated user's
\* request for an existing target.
C2_Witness ==
    /\ resp.op \in RemoveOps
    /\ resp.user \in Users
    /\ resp.status = HTTP_400_BAD_REQUEST
    /\ \E k \in DOMAIN Follow : Follow[k] > 0
    /\ \E k \in DOMAIN Favorite : Favorite[k] > 0

\* C3: a remove request on favorite or shopping cart whose pair is stored is
\* answered 204 and removes that pair and nothing else; the add request for
\* the same pair that follows it is answered 201 and stores the pair again.
C3_RemoveExisting ==
    [][LET key == <<resp'.user, resp'.target>>
       IN /\ (resp'.op \in RemoveOps \ {"UserViewSet_delete"}
                 /\ PairExists(resp'.op, resp'.user, resp'.target)) =>
               /\ resp'.status = HTTP_204_NO_CONTENT
               /\ RowsAfter(resp'.op) = [Rows(resp'.op) EXCEPT ![key] = 0]
               /\ resp'.op = "delete_favorite" => UNCHANGED ShoppingCart
               /\ resp'.op = "RecipeViewSet_delete" => UNCHANGED Favorite
          /\ (resp'.op \in AddOps /\ resp.op = RemoveOf(resp'.op)
                 /\ SameRequest(resp, resp')
                 /\ resp.status = HTTP_204_NO_CONTENT) =>
               /\ resp'.status = HTTP_201_CREATED
               /\ RowsAfter(resp'.op)[key] = 1]_vars

\* A stored pair has just been removed while the requester's row in the
\* other relation stays.
C3_Witness ==
    /\ resp.op \in RemoveOps \ {"UserViewSet_delete"}
    /\ resp.status = HTTP_204_NO_CONTENT
    /\ Rows(resp.op)[<<resp.user, resp.target>>] = 0
    /\ Favorite[<<resp.user, resp.target>>]
         + ShoppingCart[<<resp.user, resp.target>>] = 1

\* C4: whatever the interleaving of the concurrent add requests, no
\* (user, recipe) pair has more than one Favorite row or more than one
\* ShoppingCart row.
C4_NoDuplicateRow ==
    \A k \in Users \X RecipeIds : Favorite[k] <= 1 /\ ShoppingCart[k] <= 1

\* Two requests passed the existence check for the same pair and the
\* constraint refused the insert of the later one.
C4_Witness ==
    \E w \in 1..NumWorkers :
        /\ workers[w].op = "shopping_cart"
        /\ workers[w].status = HTTP_500_SERVER_ERROR
        /\ ShoppingCart[<<workers[w].user, workers[w].pk>>] = 1

\* C5: a subscribe request of a user to themselves is answered 400, and no
\* Follow row has follower = followed.
C5_NoSelfFollow ==
    /\ \A u \in Users : Follow[<<u, u>>] = 0
    /\ (resp.op = "subscribe" /\ resp.user \in Users
                              /\ resp.user = resp.target) =>
           resp.status = HTTP_400_BAD_REQUEST

\* A self-subscribe was refused while Follow rows exist.
C5_Witness ==
    /\ resp.op = "subscribe"
    /\ resp.user \in Users
    /\ resp.user = resp.target
    /\ resp.status = HTTP_400_BAD_REQUEST
    /\ \E k \in DOMAIN Follow : Follow[k] > 0

\* C6: a subscribe request for a pair that is already stored is answered
\* 400 and leaves Follow as it was, and no (follower, followed) pair ever
\* has more than one row.
C6_FollowOnce ==
    [][/\ (resp'.op = "subscribe"
             /\ PairExists("subscribe", resp'.user, resp'.target)) =>
            /\ resp'.status = HTTP_400_BAD_REQUEST
            /\ UNCHANGED Follow
       /\ \A k \in DOMAIN Follow : Follow'[k] <= 1]_vars

\* A repeated subscribe to another user was refused.
C6_Witness ==
    /\ resp.op = "subscribe"
    /\ resp.user \in Users
    /\ resp.user # resp.target
    /\ resp.status = HTTP_400_BAD_REQUEST
    /\ resp.target \in Users
    /\ Follow[<<resp.user, resp.target>>] = 1

Repeats(seq) == \E i, j \in DOMAIN seq : i # j /\ seq[i] = seq[j]

IngredientIds(data) ==
    [i \in DOMAIN data.ingredients |-> data.ingredients[i].id]

Rejected == serializer.validated /\ serializer.errors # NoErrors

Accepted == serializer.validated /\ serializer.errors = NoErrors

\* C7: request data of a create, PUT or PATCH in which an ingredient id
\* or a tag id occurs twice does not pass validation.
C7_RepeatedRejected ==
    (/\ serializer.validated
     /\ \/ Repeats(IngredientIds(serializer.initial_data))
        \/ Repeats(serializer.initial_data.tags)) => Rejected

\* Data whose only fault is one ingredient listed twice, refused by
\* validate_ingredients.
C7_Witness ==
    /\ Rejected
    /\ Repeats(IngredientIds(serializer.initial_data))
    /\ ~Repeats(serializer.initial_data.tags)
    /\ serializer.errors.ingredients = "duplicate_ingredient"
    /\ serializer.errors.tags = Ok

\* Everything but the amounts is in order: both lists present, not empty,
\* without a repeated id, naming stored ingredients and tags; the name is
\* supplied unless the update is partial.
OtherwiseValid(data, partial) ==
    /\ data.has_ingredients /\ data.ingredients # <<>>
    /\ ~Repeats(IngredientIds(data))
    /\ \A i \in DOMAIN data.ingredients : data.ingredients[i].id \in Ingredients
    /\ data.has_tags /\ data.tags # <<>>
    /\ ~Repeats(data.tags)
    /\ \A i \in DOMAIN data.tags : data.tags[i] \in Tags
    /\ (data.name # NoName \/ partial)

\* C8: request data with an ingredient amount <= 0 does not pass
\* validation, and data that is otherwise valid passes when every amount
\* is > 0.
C8_AmountPositive ==
    LET data == serializer.initial_data
    IN serializer.validated =>
         /\ (\E i \in DOMAIN data.ingredients :
                 data.ingredients[i].amount <= 0) => Rejected
         /\ (/\ OtherwiseValid(data, serializer.partial)
             /\ \A i \in DOMAIN data.ingredients :
                    data.ingredients[i].amount > 0) => Accepted

\* Otherwise valid data with amounts 0 and 1 was refused for the amount.
C8_Witness ==
    LET data == serializer.initial_data
    IN /\ Rejected
       /\ OtherwiseValid(data, serializer.partial)
       /\ \E i \in DOMAIN data.ingredients : data.ingredients[i].amount = 0
       /\ \E i \in DOMAIN data.ingredients : data.ingredients[i].amount > 0
       /\ serializer.errors.ingredients = "amount_not_positive"

\* C9: request data whose ingredients list or tags list is empty or
\* missing does not pass validation, on a partial update too.
C9_EmptyRejected ==
    LET data == serializer.initial_data
    IN (/\ serializer.validated
        /\ \/ ~data.has_ingredients \/ data.ingredients = <<>>
           \/ ~data.has_tags \/ data.tags = <<>>) => Rejected

\* A PATCH that carries valid ingredients and no tags key was refused by
\* validate().
C9_Witness ==
    /\ Rejected
    /\ serializer.partial
    /\ ~serializer.initial_data.has_tags
    /\ serializer.initial_data.has_ingredients
    /\ serializer.errors.non_field_errors = "need_tag"


RecipeWriteOps == {"create", "update", "partial_update"}

\* C10: a recipe create or update request that is refused (any answer
\* other than 200 or 201) leaves the stored recipes, their ingredient rows
\* and their tag sets as they were before the request.
C10_RejectedNoSideEffects ==
    [][(resp'.op \in RecipeWriteOps
           /\ resp'.status \notin {HTTP_200_OK, HTTP_201_CREATED}) =>
          UNCHANGED <<Recipe, RecipeIngredient, RecipeTag>>]_vars

\* C11: every stored recipe has at least one ingredient row, no two of its
\* rows name the same ingredient, and every stored amount is positive.
C11_RowsWellFormed ==
    \A pk \in RecipeIds :
        RecipeExists(pk) =>
            /\ RecipeIngredient[pk] # <<>>
            /\ RowsUnique(RecipeIngredient[pk])
            /\ \A i \in DOMAIN RecipeIngredient[pk] :
                   RecipeIngredient[pk][i].amount > 0

\* A recipe created and then updated by its author holds two rows.
C11_Witness ==
    /\ resp.op \in {"update", "partial_update"}
    /\ resp.status = HTTP_200_OK
    /\ Len(RecipeIngredient[resp.target]) = 2
    /\ C11_RowsWellFormed

\* The recipes currently in a user's shopping cart.
Carted(user) == {r \in RecipeIds : ShoppingCart[<<user, r>>] > 0}

\* The amount of ingredient i one recipe asks for.
RECURSIVE AmountIn(_, _)
AmountIn(rows, i) ==
    IF rows = <<>> THEN 0
    ELSE AmountIn(Tail(rows), i)
            + (IF Head(rows).ingredient = i THEN Head(rows).amount ELSE 0)

\* The amount of ingredient i the recipes of a set ask for together.
RECURSIVE Needed(_, _)
Needed(recipes, i) ==
    IF recipes = {} THEN 0
    ELSE LET r == CHOOSE x \in recipes : TRUE
         IN AmountIn(RecipeIngredient[r], i) + Needed(recipes \ {r}, i)

Downloaded ==
    resp.op = "download_shopping_cart" /\ resp.user \in Users

LinesOf(i) ==
    {k \in 2..Len(resp.body) :
        /\ resp.body[k].name = IngredientTable[i].name
        /\ resp.body[k].measurement_unit = IngredientTable[i].measurement_unit}

\* C12: the list a user downloads is the header followed by exactly one
\* line per (name, unit) among the ingredient rows of the recipes in that
\* user's cart, carrying the sum of the amounts of the group; nothing else
\* is on it.
C12_ShoppingList ==
    Downloaded =>
        /\ resp.status = HTTP_200_OK
        /\ resp.body[1] = Header
        /\ \A i \in Ingredients :
              IF Needed(Carted(resp.user), i) > 0
              THEN /\ Cardinality(LinesOf(i)) = 1
                   /\ \A k \in LinesOf(i) :
                         resp.body[k].amount = Needed(Carted(resp.user), i)
              ELSE LinesOf(i) = {}
        /\ \A k \in 2..Len(resp.body) : \E i \in Ingredients : k \in LinesOf(i)

\* C13: with nothing in the requesting user's cart the list is the header
\* line alone.
C13_EmptyCart ==
    (Downloaded /\ Carted(resp.user) = {}) =>
        /\ resp.status = HTTP_200_OK
        /\ resp.body = <<Header>>

\* C14: the token get-link returns for recipe n decodes to n, and the
\* redirect reached through that link goes to /recipes/n/.
C14_RoundTrip ==
    [][/\ (resp'.op = "get_link" /\ resp'.status = HTTP_200_OK) =>
             decode(resp'.body) = [error |-> FALSE, value |-> resp'.target]
       /\ (/\ resp.op = "get_link"
           /\ resp.status = HTTP_200_OK
           /\ resp'.op = "ShortLinkView_get") =>
             /\ resp'.status = HTTP_302_FOUND
             /\ resp'.body.location = Location(resp.target)]_vars

\* The link of a recipe whose id takes three base-64 digits was followed.
C14_Witness ==
    /\ resp.op = "ShortLinkView_get"
    /\ resp.status = HTTP_302_FOUND
    /\ Len(resp.body.encoded_id) = 3
    /\ \E n \in DOMAIN Recipe : n >= 4096 /\ resp.body.location = Location(n)

\* C15: a token with a character outside the alphabet is answered 400
\* without a redirect; a token of alphabet characters is answered with a
\* redirect to /recipes/{id}/ for an id >= 0.
C15_TokenCheck ==
    resp.op = "ShortLinkView_get" =>
        IF \E k \in DOMAIN resp.body.encoded_id :
               resp.body.encoded_id[k] \notin Chars(BASE64_ALPHABET)
        THEN /\ resp.status = HTTP_400_BAD_REQUEST
             /\ resp.body.location = NoLocation
        ELSE /\ resp.status = HTTP_302_FOUND
             /\ resp.body.location # NoLocation
             /\ resp.body.location[2] \in Nat
             /\ resp.body.location = Location(resp.body.location[2])

\* A token whose second character is outside the alphabet was refused.
C15_Witness ==
    /\ resp.op = "ShortLinkView_get"
    /\ resp.status = HTTP_400_BAD_REQUEST
    /\ Len(resp.body.encoded_id) = 2
    /\ resp.body.encoded_id[1] \in Chars(BASE64_ALPHABET)
    /\ resp.body.encoded_id[2] \notin Chars(BASE64_ALPHABET)

RecipeUnsafeOps == {"create", "update", "partial_update", "destroy"}

OthersRows(rel, u) == [k \in {q \in DOMAIN rel : q[1] # u} |-> rel[k]]

\* C17: a favorite add or remove request, accepted or rejected, changes no
\* shopping-cart row; a cart add or remove request changes no favorite row;
\* and no request changes a favorite or cart row of a user other than the
\* requester.
C17_Independent ==
    [][/\ resp'.op \in {"favorite", "delete_favorite"} =>
             UNCHANGED ShoppingCart
       /\ resp'.op \in {"shopping_cart", "RecipeViewSet_delete"} =>
             UNCHANGED Favorite
       /\ OthersRows(Favorite', resp'.user) = OthersRows(Favorite, resp'.user)
       /\ OthersRows(ShoppingCart', resp'.user) =
              OthersRows(ShoppingCart, resp'.user)]_vars

\* User 1 dropped a favorite that user 2 also holds, and still has the
\* recipe in the cart.
C17_Witness ==
    /\ resp.op = "delete_favorite"
    /\ resp.user = 1
    /\ resp.status = HTTP_204_NO_CONTENT
    /\ Favorite[<<1, resp.target>>] = 0
    /\ Favorite[<<2, resp.target>>] = 1
    /\ ShoppingCart[<<1, resp.target>>] = 1

UpdateOps == {"update", "partial_update"}

\* The (ingredient, amount) pairs of stored rows and of a request list.
RowPairs(rows) == {<<rows[k].ingredient, rows[k].amount>> : k \in DOMAIN rows}

RequestPairs(items) == {<<items[k].id, items[k].amount>> : k \in DOMAIN items}

\* C18: after an update answered 200 the recipe has one ingredient row per
\* item of the request, with that item's ingredient and amount, and no other
\* row; its tags are the tags of the request and no other; its author is
\* who it was; and the rows and tags of the other recipes are as before.
C18_UpdateReplaces ==
    [][(resp'.op \in UpdateOps /\ resp'.status = HTTP_200_OK) =>
          LET pk == resp'.target
              partial == resp'.op = "partial_update"
          IN /\ Recipe'[pk].author = Recipe[pk].author
             /\ \A r \in RecipeIds \ {pk} :
                   /\ RecipeIngredient'[r] = RecipeIngredient[r]
                   /\ RecipeTag'[r] = RecipeTag[r]
             /\ \A hi \in BOOLEAN, ht \in BOOLEAN :
                  \A i \in Lists([id : Ingredients, amount : 1..MaxAmount], hi),
                     t \in Lists(Tags, ht),
                     n \in Names \cup {NoName} :
                     UpdateRecipe(resp'.op, resp'.user, pk,
                                  Data(hi, i, ht, t, n), partial) =>
                         /\ Len(RecipeIngredient'[pk]) = Len(i)
                         /\ RowPairs(RecipeIngredient'[pk]) = RequestPairs(i)
                         /\ RecipeTag'[pk] = {t[k] : k \in DOMAIN t}]_vars

\* Recipe 1, stored with ingredient 1 and tag 1, was updated to one row of
\* ingredient 2 and tag 2 alone, next to a recipe of another author that
\* holds every ingredient and every tag.
C18_Witness ==
    /\ resp.op \in UpdateOps
    /\ resp.status = HTTP_200_OK
    /\ resp.target = 1
    /\ RecipeIngredient[1] = <<[ingredient |-> 2, amount |-> 1]>>
    /\ RecipeTag[1] = {2}
    /\ Len(RecipeIngredient[2]) = NumIngredients
    /\ RecipeTag[2] = Tags
    /\ Recipe[1].author # Recipe[2].author

\* The recipes that have a row in one of the tables that refer to recipes.
Referred ==
    {r \in RecipeIds : RecipeIngredient[r] # <<>>}
        \cup {k[2] : k \in {q \in DOMAIN Favorite : Favorite[q] > 0}}
        \cup {k[2] : k \in {q \in DOMAIN ShoppingCart : ShoppingCart[q] > 0}}

\* C19: every RecipeIngredient, Favorite and ShoppingCart row refers to a
\* stored recipe, so the rows a shopping list is computed from never belong
\* to a deleted recipe; and the delete of a recipe leaves no row on it.
C19_NoDangling ==
    /\ \A r \in Referred : RecipeExists(r)
    /\ \A u \in Users : \A r \in Carted(u) :
          RecipeExists(r) /\ RecipeIngredient[r] # <<>>
    /\ (resp.op = "destroy" /\ resp.status = HTTP_204_NO_CONTENT) =>
          resp.target \notin Referred

\* A recipe carrying an ingredient row and a favorite and a cart row of
\* every user was deleted, while another recipe is still in a cart.
C19_Witness ==
    /\ resp.op = "destroy"
    /\ resp.status = HTTP_204_NO_CONTENT
    /\ resp.before = 1 + 2 * NumUsers
    /\ ~RecipeExists(resp.target)
    /\ \E u \in Users : Carted(u) # {}

====
